---- MODULE Spec2Model ----
(***************************************************************************)
(* A model of shut2 (src/main.rs): the persisted set of banned channels    *)
(* (Settings), the toggle command that flips a channel, and the            *)
(* normal_message hook that deletes non-media messages in banned channels. *)
(*                                                                         *)
(* Every await point of the two async functions is a step boundary, so     *)
(* tasks interleave exactly where the tokio runtime may interleave them.   *)
(* Settings::toggle_channel is synchronous code, but it is split at its    *)
(* two mutations (HashSet, SQLite) because a panic between them is         *)
(* observable afterwards.                                                  *)
(***************************************************************************)
EXTENDS Integers, FiniteSets, Sequences, TLC

\* ------------------------------------------------------------------ bounds
\* Width of a channel id. The program uses 64 bits (u64 in memory, i64 in
\* SQLite); the model keeps the two's-complement casts at a smaller width.
IdBits == 8
\* Largest number of attachments a modelled message carries.
MaxAttachments == 1

IdModulus == 2 ^ IdBits
MaxId     == IdModulus - 1

\* Channel ids of the model: 42 (below the sign bit) and the largest id
\* (above the sign bit, so it is stored as a negative INTEGER).
Channels == {42, MaxId}

\* Concurrent tasks: command invocations and message events in flight.
Commands == {"t1", "t2"}
Handlers == {"h1", "h2"}
NoTask   == "none"

\* The task slots one run uses: two tasks run concurrently (two commands,
\* a command and a message, or two messages), and a slot that has finished
\* takes the next event, so a run holds any number of events.
TaskSets == {{"t1", "t2"}, {"t1", "h1"}, {"h1", "h2"}}

\* ------------------------------------------------------------- conversions
\* `channel.0 as i64`: reinterpret an unsigned id as a signed integer.
AsI64(u) == IF u >= IdModulus \div 2 THEN u - IdModulus ELSE u
\* `channel_id as u64`: reinterpret a signed integer as an unsigned id.
AsU64(i) == i % IdModulus

\* The INTEGER values a row of banned_channels can hold in the model.
RowValues == {AsI64(c) : c \in Channels}

VARIABLES
    banned_channels,  \* Settings.banned_channels : HashSet<ChannelId>
    table,            \* rows of banned_channels in SQLite: value -> number of rows
    rwWriter,         \* task holding RwLock<Settings> for writing, or NoTask
    rwReaders,        \* tasks holding RwLock<Settings> for reading
    connHolder,       \* task holding Settings.connection (std Mutex), or NoTask
    connPoisoned,     \* the std Mutex was poisoned by a panic while held
    cpc,              \* command task -> position in toggle_channel (command)
    cchan,            \* command task -> msg.channel_id
    cret,             \* command task -> value returned by Settings::toggle_channel
    cwas,             \* command task -> channel_was_banned
    creply,           \* command task -> confirmation sent ("stop", "now", "none")
    hpc,              \* handler task -> position in normal_message
    hmsg,             \* handler task -> the message being handled
    hbanned,          \* handler task -> in_banned_channel
    hattempted,       \* handler task -> gateway calls issued for the message
    hsucceeded,       \* handler task -> gateway calls that returned Ok
    \* history (not program state)
    cbefore,          \* command task -> was its channel in the set / in the table on entry
    toggled,          \* channel -> parity of the toggles completed on it since load
    lastBefore,       \* channel -> membership before its latest completed toggle
    loaded,           \* the set Settings::load produced at the last start
    aborted,          \* a toggle_channel call has panicked since the last start
    hlookup,          \* handler task -> was the channel in the set at the lookup
    cwrites,          \* command task -> SQL statements its toggle_channel call has executed
    touched,          \* channel -> a toggle_channel call on it has started since load
    hreads,           \* handler task -> lookups of the set made for the message
    tasks             \* the task slots of this run

storeVars   == <<banned_channels, table, rwWriter, rwReaders, connHolder, connPoisoned>>
commandVars == <<cpc, cchan, cret, cwas, creply>>
handlerVars == <<hpc, hmsg, hbanned, hattempted, hsucceeded>>
historyVars ==
    <<cbefore, toggled, lastBefore, loaded, aborted, hlookup, cwrites, touched, hreads, tasks>>
vars == <<storeVars, commandVars, handlerVars, historyVars>>

\* Messages delivered to normal_message. `link` is the value of
\* LINK_RE.is_match(&msg.content).
Messages ==
    [bot : BOOLEAN, link : BOOLEAN, attachments : 0..MaxAttachments, channel : Channels]

NoMessage == [bot |-> FALSE, link |-> FALSE, attachments |-> 0, channel |-> 42]

\* --------------------------------------------------------------- Settings
\* Channel ids that have at least one row in the table.
StoredRows == {r \in DOMAIN table : table[r] > 0}

\* Settings::load: every row's INTEGER is cast to u64 and inserted in the set.
Load(tbl) == {AsU64(r) : r \in {x \in DOMAIN tbl : tbl[x] > 0}}

\* A bool held in a slot that can also be empty ("none").
Str(b) == IF b THEN "true" ELSE "false"

\* HashSet::contains on the in-memory set (is_enforced).
Contains(set, c) == c \in set

\* Mutant: the removal is dropped, only its result is used.
SetRemoveKeeps(set, c) == set
\* HashSet::remove: the set without the channel.
SetRemove(set, c) == set \ {c}

\* Mutant: the insertion after the INSERT is forgotten.
SetInsertForgotten(set, c) == set
\* HashSet::insert: the set with the channel.
SetAdd(set, c) == set \cup {c}

\* Mutant: the DELETE is prepared and bound but never stepped.
SqlDeleteNotStepped(tbl, c) == tbl
\* Mutant: the DELETE has no WHERE clause.
SqlDeleteAll(tbl, c) == [r \in DOMAIN tbl |-> 0]
\* DELETE FROM banned_channels WHERE channel_id = ? : every matching row goes.
SqlDelete(tbl, c) == [tbl EXCEPT ![AsI64(c)] = 0]

\* Mutant: the INSERT is prepared and bound but never stepped.
SqlInsertNotStepped(tbl, c) == tbl
\* INSERT INTO banned_channels VALUES (?) : one more row, no uniqueness check.
SqlInsert(tbl, c) == [tbl EXCEPT ![AsI64(c)] = @ + 1]

\* Tables the program can find on disk at start: it only ever inserts a
\* channel that is absent, so a table has at most one row per channel.
Tables == [RowValues -> {0, 1}]

Init ==
    /\ table \in Tables
    /\ banned_channels = Load(table)
    /\ rwWriter = NoTask
    /\ rwReaders = {}
    /\ connHolder = NoTask
    /\ connPoisoned = FALSE
    /\ cpc = [t \in Commands |-> "idle"]
    /\ cchan = [t \in Commands |-> 42]
    /\ cret = [t \in Commands |-> "none"]
    /\ cwas = [t \in Commands |-> "none"]
    /\ creply = [t \in Commands |-> "none"]
    /\ hpc = [h \in Handlers |-> "idle"]
    /\ hmsg = [h \in Handlers |-> NoMessage]
    /\ hbanned = [h \in Handlers |-> FALSE]
    /\ hattempted = [h \in Handlers |-> {}]
    /\ hsucceeded = [h \in Handlers |-> {}]
    /\ cbefore = [t \in Commands |-> [mem |-> FALSE, db |-> FALSE]]
    /\ toggled = [c \in Channels |-> FALSE]
    /\ lastBefore = [c \in Channels |-> "none"]
    /\ loaded = Load(table)
    /\ aborted = FALSE
    /\ hlookup = [h \in Handlers |-> FALSE]
    /\ cwrites = [t \in Commands |-> 0]
    /\ touched = [c \in Channels |-> FALSE]
    /\ hreads = [h \in Handlers |-> 0]
    /\ tasks \in TaskSets

\* ------------------------------------------------- toggle_channel (command)
CommandIdle(t) == cpc[t] \in {"idle", "done", "err", "panicked"}

\* The framework dispatches the command; `msg.channel(&ctx).await?.guild()`
\* resolves the invoking channel. A failure returns Err before any lock.
CommandBegin(t, c, resolved) ==
    /\ t \in tasks
    /\ CommandIdle(t)
    /\ cpc' = [cpc EXCEPT ![t] = IF resolved THEN "write_lock" ELSE "err"]
    /\ cchan' = [cchan EXCEPT ![t] = c]
    /\ cret' = [cret EXCEPT ![t] = "none"]
    /\ cwas' = [cwas EXCEPT ![t] = "none"]
    /\ creply' = [creply EXCEPT ![t] = "none"]
    /\ cbefore' = [cbefore EXCEPT ![t] = [mem |-> FALSE, db |-> FALSE]]
    /\ UNCHANGED <<storeVars, handlerVars>>
    /\ cwrites' = [cwrites EXCEPT ![t] = 0]
    /\ UNCHANGED <<toggled, lastBefore, loaded, aborted, hlookup, touched, hreads, tasks>>

\* `settings_lock.write().await`: granted when nobody reads or writes.
WriteAcquire(t) ==
    /\ cpc[t] = "write_lock"
    /\ rwWriter = NoTask
    /\ rwReaders = {}
    /\ rwWriter' = t
    /\ cpc' = [cpc EXCEPT ![t] = "conn_lock"]
    /\ cbefore' = [cbefore EXCEPT ![t] =
            [mem |-> cchan[t] \in banned_channels,
             db  |-> AsI64(cchan[t]) \in StoredRows]]
    /\ UNCHANGED <<banned_channels, table, rwReaders, connHolder, connPoisoned>>
    /\ UNCHANGED <<cchan, cret, cwas, creply, handlerVars>>
    /\ touched' = [touched EXCEPT ![cchan[t]] = TRUE]
    /\ UNCHANGED <<toggled, lastBefore, loaded, aborted, hlookup, cwrites, hreads, tasks>>

\* A panic inside Settings::toggle_channel unwinds the command task: the
\* std MutexGuard, if held, poisons the mutex as it drops, and the tokio
\* write guard is released.
TogglePanics(t) ==
    /\ cpc' = [cpc EXCEPT ![t] = "panicked"]
    /\ connPoisoned' = (connPoisoned \/ connHolder = t)
    /\ connHolder' = NoTask
    /\ rwWriter' = NoTask
    /\ aborted' = TRUE

\* Mutant: the poisoned mutex is recovered with into_inner() instead of
\* unwrapped.
ConnLockIgnoringPoison(t) ==
    /\ cpc[t] = "conn_lock"
    /\ connHolder = NoTask
    /\ connHolder' = t
    /\ cpc' = [cpc EXCEPT ![t] = "remove"]
    /\ UNCHANGED <<connPoisoned, rwWriter, aborted>>
    /\ UNCHANGED <<banned_channels, table, rwReaders>>
    /\ UNCHANGED <<cchan, cret, cwas, creply, handlerVars>>
    /\ UNCHANGED <<cbefore, toggled, lastBefore, loaded, hlookup, cwrites, touched, hreads, tasks>>

\* `self.connection.lock().unwrap()`: panics when the mutex is poisoned.
ConnLock(t) ==
    /\ cpc[t] = "conn_lock"
    /\ connHolder = NoTask
    /\ IF connPoisoned
         THEN TogglePanics(t)
         ELSE /\ connHolder' = t
              /\ cpc' = [cpc EXCEPT ![t] = "remove"]
              /\ UNCHANGED <<connPoisoned, rwWriter, aborted>>
    /\ UNCHANGED <<banned_channels, table, rwReaders>>
    /\ UNCHANGED <<cchan, cret, cwas, creply, handlerVars>>
    /\ UNCHANGED <<cbefore, toggled, lastBefore, loaded, hlookup, cwrites, touched, hreads, tasks>>

\* `if self.banned_channels.remove(&channel)`: the in-memory removal comes
\* first and selects the branch.
Remove(t) ==
    /\ cpc[t] = "remove"
    /\ banned_channels' = SetRemove(banned_channels, cchan[t])
    /\ cpc' = [cpc EXCEPT ![t] =
            IF Contains(banned_channels, cchan[t]) THEN "sql_delete" ELSE "sql_insert"]
    /\ UNCHANGED <<table, rwWriter, rwReaders, connHolder, connPoisoned>>
    /\ UNCHANGED <<cchan, cret, cwas, creply, handlerVars, historyVars>>

\* Mutant: `return true` is missing, so the call falls through to the INSERT.
DeleteRowFallsThrough(t, ok) ==
    /\ cpc[t] = "sql_delete"
    /\ IF ok
         THEN /\ table' = SqlDelete(table, cchan[t])
              /\ cpc' = [cpc EXCEPT ![t] = "sql_insert"]
              /\ UNCHANGED <<cret, connHolder, connPoisoned, rwWriter, aborted>>
         ELSE /\ TogglePanics(t)
              /\ UNCHANGED <<table, cret>>
    /\ UNCHANGED <<banned_channels, rwReaders>>
    /\ UNCHANGED <<cchan, cwas, creply, handlerVars>>
    /\ cwrites' = [cwrites EXCEPT ![t] = IF ok THEN @ + 1 ELSE @]
    /\ UNCHANGED <<cbefore, toggled, lastBefore, loaded, hlookup, touched, hreads, tasks>>

\* Branch `true`: prepare / bind / next of the DELETE, each unwrapped; then
\* `return true` (the connection guard drops).
DeleteRow(t, ok) ==
    /\ cpc[t] = "sql_delete"
    /\ IF ok
         THEN /\ table' = SqlDelete(table, cchan[t])
              /\ cret' = [cret EXCEPT ![t] = "true"]
              /\ cpc' = [cpc EXCEPT ![t] = "returned"]
              /\ connHolder' = NoTask
              /\ UNCHANGED <<connPoisoned, rwWriter, aborted>>
         ELSE /\ TogglePanics(t)
              /\ UNCHANGED <<table, cret>>
    /\ UNCHANGED <<banned_channels, rwReaders>>
    /\ UNCHANGED <<cchan, cwas, creply, handlerVars>>
    /\ cwrites' = [cwrites EXCEPT ![t] = IF ok THEN @ + 1 ELSE @]
    /\ UNCHANGED <<cbefore, toggled, lastBefore, loaded, hlookup, touched, hreads, tasks>>

\* Branch `false`: prepare / bind / next of the INSERT, each unwrapped.
InsertRow(t, ok) ==
    /\ cpc[t] = "sql_insert"
    /\ IF ok
         THEN /\ table' = SqlInsert(table, cchan[t])
              /\ cpc' = [cpc EXCEPT ![t] = "set_insert"]
              /\ UNCHANGED <<connHolder, connPoisoned, rwWriter, aborted>>
         ELSE /\ TogglePanics(t)
              /\ UNCHANGED table
    /\ UNCHANGED <<banned_channels, rwReaders>>
    /\ UNCHANGED <<cchan, cret, cwas, creply, handlerVars>>
    /\ cwrites' = [cwrites EXCEPT ![t] = IF ok THEN @ + 1 ELSE @]
    /\ UNCHANGED <<cbefore, toggled, lastBefore, loaded, hlookup, touched, hreads, tasks>>

\* `self.banned_channels.insert(channel); return false`.
SetInsert(t) ==
    /\ cpc[t] = "set_insert"
    /\ banned_channels' = SetAdd(banned_channels, cchan[t])
    /\ cret' = [cret EXCEPT ![t] = "false"]
    /\ cpc' = [cpc EXCEPT ![t] = "returned"]
    /\ connHolder' = NoTask
    /\ UNCHANGED <<table, rwWriter, rwReaders, connPoisoned>>
    /\ UNCHANGED <<cchan, cwas, creply, handlerVars, historyVars>>

\* End of the block of lines 215-218: the returned value becomes
\* channel_was_banned and the write guard drops.
WriteRelease(t) ==
    /\ cpc[t] = "returned"
    /\ cwas' = [cwas EXCEPT ![t] = cret[t]]
    /\ cret' = [cret EXCEPT ![t] = "none"]
    /\ rwWriter' = NoTask
    /\ cpc' = [cpc EXCEPT ![t] = "reply"]
    /\ toggled' = [toggled EXCEPT ![cchan[t]] = ~@]
    /\ lastBefore' = [lastBefore EXCEPT ![cchan[t]] = Str(cbefore[t].mem)]
    /\ UNCHANGED <<banned_channels, table, rwReaders, connHolder, connPoisoned>>
    /\ UNCHANGED <<cchan, creply, handlerVars>>
    /\ UNCHANGED <<cbefore, loaded, aborted, hlookup, cwrites, touched, hreads, tasks>>

\* Mutant: the two branches of `if channel_was_banned` are swapped.
ReplyTextSwapped(was) == IF was = "true" THEN "now" ELSE "stop"
\* The confirmation chosen by `if channel_was_banned`.
ReplyText(was) == IF was = "true" THEN "stop" ELSE "now"

\* `msg.reply(...).await?`: a failed send returns Err from the command.
Reply(t, ok) ==
    /\ cpc[t] = "reply"
    /\ IF ok
         THEN /\ creply' = [creply EXCEPT ![t] = ReplyText(cwas[t])]
              /\ cpc' = [cpc EXCEPT ![t] = "done"]
         ELSE /\ cpc' = [cpc EXCEPT ![t] = "err"]
              /\ UNCHANGED creply
    /\ UNCHANGED <<storeVars, cchan, cret, cwas, handlerVars, historyVars>>

\* ---------------------------------------------------------- normal_message
HandlerIdle(h) == hpc[h] \in {"idle", "ignored", "done", "panicked"}

\* Mutant: the test follows the comment "More than 1 attachment or link".
IsMediaMoreThanOne(m) == m.link \/ m.attachments > 1
\* `if link || msg.attachments.len() > 0 { return; }`
IsMedia(m) == m.link \/ m.attachments > 0

\* Lines 152-175: the bot check and the link / attachment check run before
\* the first await; a message that passes both goes on to the lookup.
PassesFilters(m) == ~m.bot /\ ~IsMedia(m)

MessageCreate(h, m) ==
    /\ h \in tasks
    /\ HandlerIdle(h)
    /\ hmsg' = [hmsg EXCEPT ![h] = m]
    /\ hpc' = [hpc EXCEPT ![h] = IF PassesFilters(m) THEN "read_lock" ELSE "ignored"]
    /\ hbanned' = [hbanned EXCEPT ![h] = FALSE]
    /\ hattempted' = [hattempted EXCEPT ![h] = {}]
    /\ hsucceeded' = [hsucceeded EXCEPT ![h] = {}]
    /\ hlookup' = [hlookup EXCEPT ![h] = FALSE]
    /\ UNCHANGED <<storeVars, commandVars>>
    /\ hreads' = [hreads EXCEPT ![h] = 0]
    /\ UNCHANGED <<cbefore, toggled, lastBefore, loaded, aborted, cwrites, touched, tasks>>

\* Mutant: the set is read without waiting for the writer to finish.
ReadAcquireUnguarded(h) ==
    /\ hpc[h] = "read_lock"
    /\ rwReaders' = rwReaders \cup {h}
    /\ hpc' = [hpc EXCEPT ![h] = "lookup"]
    /\ UNCHANGED <<banned_channels, table, rwWriter, connHolder, connPoisoned>>
    /\ UNCHANGED <<commandVars, hmsg, hbanned, hattempted, hsucceeded, historyVars>>

\* `settings_lock.read().await`: granted when nobody writes.
ReadAcquire(h) ==
    /\ hpc[h] = "read_lock"
    /\ rwWriter = NoTask
    /\ rwReaders' = rwReaders \cup {h}
    /\ hpc' = [hpc EXCEPT ![h] = "lookup"]
    /\ UNCHANGED <<banned_channels, table, rwWriter, connHolder, connPoisoned>>
    /\ UNCHANGED <<commandVars, hmsg, hbanned, hattempted, hsucceeded, historyVars>>

\* Mutant: the read guard is bound in the function's scope, not in a block,
\* so it lives until the handler returns.
LookupKeepingGuard(h) ==
    /\ hpc[h] = "lookup"
    /\ hbanned' = [hbanned EXCEPT ![h] = Contains(banned_channels, hmsg[h].channel)]
    /\ hpc' = [hpc EXCEPT ![h] =
            IF Contains(banned_channels, hmsg[h].channel) THEN "delete" ELSE "ignored"]
    /\ hlookup' = [hlookup EXCEPT ![h] = hmsg[h].channel \in banned_channels]
    /\ UNCHANGED <<banned_channels, table, rwWriter, rwReaders, connHolder, connPoisoned>>
    /\ UNCHANGED <<commandVars, hmsg, hattempted, hsucceeded>>
    /\ hreads' = [hreads EXCEPT ![h] = @ + 1]
    /\ UNCHANGED <<cbefore, toggled, lastBefore, loaded, aborted, cwrites, touched, tasks>>

\* `settings.banned_channels.contains(&msg.channel_id)`, the read guard drops
\* at the end of the block, then `if !in_banned_channel { return; }`.
Lookup(h) ==
    /\ hpc[h] = "lookup"
    /\ hbanned' = [hbanned EXCEPT ![h] = Contains(banned_channels, hmsg[h].channel)]
    /\ rwReaders' = rwReaders \ {h}
    /\ hpc' = [hpc EXCEPT ![h] =
            IF Contains(banned_channels, hmsg[h].channel) THEN "delete" ELSE "ignored"]
    /\ hlookup' = [hlookup EXCEPT ![h] = hmsg[h].channel \in banned_channels]
    /\ UNCHANGED <<banned_channels, table, rwWriter, connHolder, connPoisoned>>
    /\ UNCHANGED <<commandVars, hmsg, hattempted, hsucceeded>>
    /\ hreads' = [hreads EXCEPT ![h] = @ + 1]
    /\ UNCHANGED <<cbefore, toggled, lastBefore, loaded, aborted, cwrites, touched, tasks>>

\* Mutant: the Result is discarded instead of unwrapped, so the handler goes
\* on after an Err.
GatewayCallIgnoringErr(h, at, call, ok, next) ==
    /\ hpc[h] = at
    /\ hattempted' = [hattempted EXCEPT ![h] = @ \cup {call}]
    /\ hsucceeded' = [hsucceeded EXCEPT ![h] = IF ok THEN @ \cup {call} ELSE @]
    /\ hpc' = [hpc EXCEPT ![h] = next]
    /\ UNCHANGED <<storeVars, commandVars, hmsg, hbanned, historyVars>>

\* One gateway call `.await.unwrap()`: Ok moves on to `next`, Err panics
\* the handler task.
GatewayCall(h, at, call, ok, next) ==
    /\ hpc[h] = at
    /\ hattempted' = [hattempted EXCEPT ![h] = @ \cup {call}]
    /\ hsucceeded' = [hsucceeded EXCEPT ![h] = IF ok THEN @ \cup {call} ELSE @]
    /\ hpc' = [hpc EXCEPT ![h] = IF ok THEN next ELSE "panicked"]
    /\ UNCHANGED <<storeVars, commandVars, hmsg, hbanned, historyVars>>

\* `msg.delete(&ctx).await.unwrap()`
DeleteMessage(h, ok) == GatewayCall(h, "delete", "delete_original", ok, "say")

\* Mutant: the warning is deleted right after it is sent, without the sleep.
SayWarningNoDelay(h, ok) == GatewayCall(h, "say", "send_warning", ok, "delete_reply")
\* `msg.channel_id.say(&ctx, ...).await.unwrap()`
SayWarning(h, ok) == GatewayCall(h, "say", "send_warning", ok, "sleep")

\* Mutant: after the delay the handler looks the channel up again and
\* leaves the warning in place when the channel is no longer banned.
SleepThenRecheck(h) ==
    /\ hpc[h] = "sleep"
    /\ hpc' = [hpc EXCEPT ![h] =
            IF hmsg[h].channel \in banned_channels THEN "delete_reply" ELSE "ignored"]
    /\ UNCHANGED <<storeVars, commandVars, hmsg, hbanned, hattempted, hsucceeded, historyVars>>

\* `tokio::time::sleep(Duration::from_secs(3)).await`: the timer fires.
Sleep(h) ==
    /\ hpc[h] = "sleep"
    /\ hpc' = [hpc EXCEPT ![h] = "delete_reply"]
    /\ UNCHANGED <<storeVars, commandVars, hmsg, hbanned, hattempted, hsucceeded, historyVars>>

\* `reply_msg.delete(&ctx).await.unwrap()`
DeleteReply(h, ok) == GatewayCall(h, "delete_reply", "delete_warning", ok, "done")

\* ------------------------------------------------------------ specification
Next ==
    \/ \E t \in Commands, c \in Channels, ok \in BOOLEAN : CommandBegin(t, c, ok)
    \/ \E t \in Commands : WriteAcquire(t)
    \/ \E t \in Commands : ConnLock(t)
    \/ \E t \in Commands : Remove(t)
    \/ \E t \in Commands, ok \in BOOLEAN : DeleteRow(t, ok)
    \/ \E t \in Commands, ok \in BOOLEAN : InsertRow(t, ok)
    \/ \E t \in Commands : SetInsert(t)
    \/ \E t \in Commands : WriteRelease(t)
    \/ \E t \in Commands, ok \in BOOLEAN : Reply(t, ok)
    \/ \E h \in Handlers, m \in Messages : MessageCreate(h, m)
    \/ \E h \in Handlers : ReadAcquire(h)
    \/ \E h \in Handlers : Lookup(h)
    \/ \E h \in Handlers, ok \in BOOLEAN : DeleteMessage(h, ok)
    \/ \E h \in Handlers, ok \in BOOLEAN : SayWarning(h, ok)
    \/ \E h \in Handlers : Sleep(h)
    \/ \E h \in Handlers, ok \in BOOLEAN : DeleteReply(h, ok)

Spec == Init /\ [][Next]_vars

\* The tokio runtime polls every task that can make progress: a gateway
\* request gets its response (Ok or Err) and the sleep timer fires.
HandlerFairness(h) ==
    /\ WF_vars(\E ok \in BOOLEAN : DeleteMessage(h, ok))
    /\ WF_vars(\E ok \in BOOLEAN : SayWarning(h, ok))
    /\ WF_vars(Sleep(h))
    /\ WF_vars(\E ok \in BOOLEAN : DeleteReply(h, ok))

LiveSpec == Spec /\ \A h \in Handlers : HandlerFairness(h)

\* ------------------------------------------------------------------ claims
\* Channel ids held by the rows of the table, as the rows store them.
StoredAsRows(set) == {AsI64(c) : c \in set}

\* A toggle is between taking and dropping the write lock.
InCriticalSection(t) ==
    cpc[t] \in {"conn_lock", "remove", "sql_delete", "sql_insert", "set_insert", "returned"}

NotFiltered(m) == ~m.bot /\ ~m.link /\ m.attachments = 0

\* C1: in failure-free runs, whenever the write lock on the store is not
\* held, the in-memory set holds exactly the channel ids that have a row in
\* banned_channels.
C1_SetMatchesTable ==
    (~aborted /\ rwWriter = NoTask) => StoredAsRows(banned_channels) = StoredRows

\* C1 witness: both channels have been toggled, the lock is free, and the
\* channel stored as a negative INTEGER is banned.
C1_Witness ==
    /\ ~aborted
    /\ rwWriter = NoTask
    /\ \A c \in Channels : toggled[c]
    /\ MaxId \in banned_channels

\* C2: a toggle whose storage write failed leaves the channel as it was
\* before the call, in the set and in the table, and the two still agree.
C2_FailedToggleChangesNothing ==
    \A t \in Commands :
        cpc[t] = "panicked" =>
            /\ (cchan[t] \in banned_channels) = cbefore[t].mem
            /\ (AsI64(cchan[t]) \in StoredRows) = cbefore[t].db
            /\ StoredAsRows(banned_channels) = StoredRows

\* C3: toggle_channel returns true exactly when the channel was in the set
\* on entry, and on return the channel's membership is negated in the set
\* and in the table.
C3_ReturnsPreviousAndFlips ==
    \A t \in Commands :
        cpc[t] = "returned" =>
            /\ cret[t] = Str(cbefore[t].mem)
            /\ (cchan[t] \in banned_channels) = ~cbefore[t].mem
            /\ (AsI64(cchan[t]) \in StoredRows) = ~cbefore[t].db

\* C3 witness: a toggle of a banned channel has just returned true.
C3_Witness ==
    \E t \in Commands :
        cpc[t] = "returned" /\ cret[t] = "true" /\ cchan[t] = MaxId /\ cbefore[t].mem

C5_ReloadGivesRunningSet ==
    /\ (\A t \in Commands : ~InCriticalSection(t)) => Load(table) = banned_channels
    /\ \A t \in Commands :
          (loaded = {} /\ cpc[t] = "returned" /\ cchan[t] = 42) =>
              /\ cret[t] = Str(toggled[42])
              /\ (42 \in banned_channels) = ~toggled[42]
              /\ (42 \in Load(table)) = ~toggled[42]

\* C6: when a toggle returns, the set and the table agree, and if the
\* channel was toggled before, it is back in the state it had before that
\* previous toggle.
C6_TwoTogglesRestore ==
    \A t \in Commands :
        cpc[t] = "returned" =>
            /\ StoredAsRows(banned_channels) = StoredRows
            /\ lastBefore[cchan[t]] # "none"
                  => Str(cchan[t] \in banned_channels) = lastBefore[cchan[t]]

\* C6 witness: the second of two toggles of a channel that started banned
\* has returned, and the channel is banned again.
C6_Witness ==
    \E t \in Commands :
        /\ cpc[t] = "returned"
        /\ lastBefore[cchan[t]] = "true"
        /\ cchan[t] \in banned_channels
        /\ cchan[t] \in loaded

\* Exclusive or of two booleans.
Flip(a, b) == (a /\ ~b) \/ (~a /\ b)

\* C7: once every issued toggle has returned, each channel is banned iff
\* its state at load flipped by the parity of the toggles applied to it says
\* so, in the set and in the table.
C7_StateIsParityOfToggles ==
    (~aborted /\ \A t \in Commands : cpc[t] \in {"idle", "reply", "done", "err"}) =>
        \A c \in Channels :
            /\ (c \in banned_channels) = Flip(c \in loaded, toggled[c])
            /\ (AsI64(c) \in StoredRows) = Flip(c \in loaded, toggled[c])

\* C7 witness: two command tasks have both finished a toggle of the same
\* channel with opposite results, and the other channel was toggled once.
C7_Witness ==
    /\ ~aborted
    /\ cpc["t1"] = "done" /\ cpc["t2"] = "done"
    /\ cchan["t1"] = cchan["t2"]
    /\ cwas["t1"] # cwas["t2"]
    /\ \E c \in Channels : c # cchan["t1"] /\ toggled[c]

Failed(h, call) == call \in hattempted[h] \ hsucceeded[h]

\* C8: after a failed delete of the original no other gateway call is made
\* for the message, and after a failed send of the warning no delete of the
\* warning is attempted.
C8_FailureEndsTheSequence ==
    \A h \in Handlers :
        /\ Failed(h, "delete_original") => hattempted[h] = {"delete_original"}
        /\ Failed(h, "send_warning") => "delete_warning" \notin hattempted[h]

\* C8 witness: the original was deleted, the warning could not be sent, and
\* the handler stopped there.
C8_Witness ==
    \E h \in Handlers :
        /\ hpc[h] = "panicked"
        /\ hattempted[h] = {"delete_original", "send_warning"}
        /\ hsucceeded[h] = {"delete_original"}

\* C9: a failed delete of the warning reply does not panic the handler.
C9_WarningDeleteFailureIsNotFatal ==
    \A h \in Handlers : Failed(h, "delete_warning") => hpc[h] # "panicked"

AllCalls == {"delete_original", "send_warning", "delete_warning"}

\* C10: a handler that found its channel banned eventually has deleted the
\* original, sent the warning and deleted the warning, unless one of its
\* gateway calls fails; no toggle in between stops it.
C10_EnforcementCompletes ==
    \A h \in Handlers :
        (hpc[h] = "delete") ~>
            (hattempted[h] # hsucceeded[h] \/ (hpc[h] = "done" /\ hsucceeded[h] = AllCalls))

\* C10 witness: the whole sequence ran for a message whose channel was banned
\* at the lookup and is not banned any more.
C10_Witness ==
    \E h \in Handlers :
        /\ hpc[h] = "done"
        /\ hsucceeded[h] = AllCalls
        /\ hlookup[h]
        /\ hmsg[h].channel \notin banned_channels

\* C11: a command task has sent "stop" exactly when it finished and its own
\* toggle returned true (the channel was banned), "now" exactly when it
\* finished and the toggle returned false; a reply exists only after the
\* toggle completed, and a task whose toggle panicked has sent none.
C11_ReplyReflectsOwnToggle ==
    \A t \in Commands :
        /\ creply[t] # "none" => cpc[t] = "done" /\ cwas[t] # "none"
        /\ cpc[t] = "done" => creply[t] # "none"
        /\ creply[t] = "stop" => cwas[t] = "true" /\ cbefore[t].mem
        /\ creply[t] = "now" => cwas[t] = "false" /\ ~cbefore[t].mem
        /\ cpc[t] = "panicked" => creply[t] = "none" /\ cwas[t] = "none"

\* C11 witness: a task has replied "stop" for its own toggle although the
\* channel has since been banned again by another toggle.
C11_Witness ==
    \E t \in Commands :
        cpc[t] = "done" /\ creply[t] = "stop" /\ cchan[t] \in banned_channels

\* A step of normal_message.
HandlerStep == handlerVars' # handlerVars

\* C12: a toggle_channel call that returned has executed exactly one SQL
\* statement, and no step of normal_message changes the in-memory set or
\* the table.
C12_OneWritePerToggleNoneOnLookup ==
    /\ [](\A t \in Commands :
            (cpc[t] \in {"returned", "reply", "done"} \/ (cpc[t] = "err" /\ cwas[t] # "none"))
                => cwrites[t] = 1)
    /\ [][HandlerStep => UNCHANGED <<banned_channels, table>>]_vars

\* C12 witness: a disabling toggle has returned after its single DELETE,
\* while a handler has already looked the set up.
C12_Witness ==
    /\ \E t \in Commands : cpc[t] = "returned" /\ cret[t] = "true" /\ cwrites[t] = 1
    /\ \E h \in Handlers : hreads[h] = 1

\* C13: from an empty store, a channel no toggle was started on is in
\* neither the set nor the table and every lookup of it gave false; and a
\* step of a toggle changes no other channel's membership, in the set or in
\* the table.
C13_UntoggledStaysOff ==
    /\ [](loaded = {} =>
            \A c \in Channels :
                ~touched[c] =>
                    /\ c \notin banned_channels
                    /\ AsI64(c) \notin StoredRows
                    /\ \A h \in Handlers :
                          (hmsg[h].channel = c /\ hreads[h] > 0) => ~hbanned[h])
    /\ [][\A t \in Commands :
              cpc'[t] # cpc[t] =>
                  \A c \in Channels \ {cchan'[t]} :
                      /\ (c \in banned_channels') = (c \in banned_channels)
                      /\ (table'[AsI64(c)] > 0) = (table[AsI64(c)] > 0)]_vars

\* C13 witness: the store started empty, channel 42 was toggled on and off
\* again, and a handler looked up the never-toggled channel.
C13_Witness ==
    /\ loaded = {}
    /\ lastBefore[42] = "true"
    /\ ~touched[MaxId]
    /\ \E h \in Handlers :
          hpc[h] = "ignored" /\ hmsg[h].channel = MaxId /\ hreads[h] = 1

\* C14: while a toggle is between taking and dropping the write lock it is
\* the only writer, nobody holds the read lock or is at the lookup, and no
\* other toggle is inside; and in failure-free runs a lookup returns the
\* channel's membership in the table at that moment.
C14_CriticalSectionExclusive ==
    /\ [](\A t \in Commands :
            InCriticalSection(t) =>
                /\ rwWriter = t
                /\ rwReaders = {}
                /\ \A h \in Handlers : hpc[h] # "lookup"
                /\ \A u \in Commands \ {t} : ~InCriticalSection(u))
    /\ [][\A h \in Handlers :
              (~aborted /\ hpc[h] = "lookup" /\ hpc'[h] # "lookup") =>
                  hbanned'[h] = (AsI64(hmsg[h].channel) \in StoredRows)]_vars

\* C14 witness: a toggle has removed the channel from the set and not yet
\* from the table, while a message of that channel waits for the read lock.
C14_Witness ==
    \E t \in Commands, h \in Handlers :
        /\ cpc[t] = "sql_delete"
        /\ hpc[h] = "read_lock"
        /\ hmsg[h].channel = cchan[t]

\* The handler is suspended in a gateway call or in the delay.
Suspended(h) == hpc[h] \in {"delete", "say", "sleep", "delete_reply"}

\* C15: a handler suspended in a gateway call or in the delay holds no read
\* lock; a command task holds the write lock and the connection only inside
\* toggle_channel, not while it resolves the channel, waits for the lock or
\* sends its reply. The read lock is held only at the lookup.
C15_NoLockAcrossAwait ==
    /\ \A h \in Handlers : Suspended(h) => h \notin rwReaders
    /\ \A h \in rwReaders : hpc[h] = "lookup"
    /\ \A t \in Commands :
          ~InCriticalSection(t) => rwWriter # t /\ connHolder # t

\* C15 witness: a toggle is inside its critical section while a handler is
\* suspended in the delay.
C15_Witness ==
    \E t \in Commands, h \in Handlers :
        hpc[h] = "sleep" /\ cpc[t] = "remove" /\ rwWriter = t

\* Position of a handler in the enforcement sequence.
Stage(pc) ==
    CASE pc = "delete"       -> 1
      [] pc = "say"          -> 2
      [] pc = "sleep"        -> 3
      [] pc = "delete_reply" -> 4
      [] pc = "done"         -> 5
      [] OTHER               -> 0

\* C16: inside the enforcement sequence a handler only moves to the next
\* step (or stops at a failure), issuing that step's gateway call once; the
\* warning is sent only after the original's delete succeeded, and the
\* warning's delete only after the warning was sent and the delay elapsed.
C16_StepsInOrder ==
    /\ [](\A h \in Handlers :
            /\ "send_warning" \in hattempted[h] => "delete_original" \in hsucceeded[h]
            /\ "delete_warning" \in hattempted[h] =>
                  "send_warning" \in hsucceeded[h] /\ hpc[h] \in {"done", "panicked"}
            /\ Stage(hpc[h]) = 3 => hattempted[h] = {"delete_original", "send_warning"})
    /\ [][\A h \in Handlers :
              (Stage(hpc[h]) > 0 /\ hpc'[h] # hpc[h]) =>
                  \/ Stage(hpc'[h]) = Stage(hpc[h]) + 1
                  \/ hpc[h] # "sleep" /\ hpc'[h] = "panicked"
                  \/ hpc[h] = "done"]_vars

\* C16 witness: two messages are at different steps, the later message
\* ahead of the earlier one's position.
C16_Witness ==
    /\ hpc["h1"] = "say"
    /\ hpc["h2"] = "delete_reply"
    /\ hmsg["h1"].channel = hmsg["h2"].channel

\* C17: no channel id ever has more than one row in banned_channels, and an
\* INSERT is executed only for a channel that is absent from the in-memory
\* set and from the table.
C17_NoDuplicateRows ==
    /\ [](\A r \in DOMAIN table : table[r] <= 1)
    /\ [][\A t \in Commands :
              (cpc[t] = "sql_insert" /\ table' # table) =>
                  /\ cchan[t] \notin banned_channels
                  /\ table[AsI64(cchan[t])] = 0]_vars

\* C17 witness: a channel that was loaded as banned has been disabled and
\* enabled again, and has one row.
C17_Witness ==
    /\ MaxId \in loaded
    /\ lastBefore[MaxId] = "false"
    /\ table[AsI64(MaxId)] = 1
    /\ rwWriter = NoTask

\* C18: a handler looks the set up once; every gateway call it issues rests
\* on that lookup having found the channel banned, a handler whose lookup
\* found it absent issues none, and once the sequence has begun no step
\* looks the set up again or drops the sequence.
C18_SingleLookupDecides ==
    /\ [](\A h \in Handlers :
            /\ hreads[h] <= 1
            /\ (Stage(hpc[h]) > 0 \/ hattempted[h] # {}) => hlookup[h] /\ hreads[h] = 1
            /\ (hpc[h] = "ignored" /\ NotFiltered(hmsg[h])) =>
                  hreads[h] = 1 /\ ~hlookup[h] /\ hattempted[h] = {})
    /\ [][\A h \in Handlers :
              Suspended(h) =>
                  /\ hpc'[h] # "ignored"
                  /\ hreads'[h] = hreads[h]
                  /\ hbanned'[h] = hbanned[h]]_vars

\* C18 witness: a handler is about to delete a message whose channel was
\* banned at its lookup and has been disabled since.
C18_Witness ==
    \E h \in Handlers :
        /\ hpc[h] = "delete"
        /\ hlookup[h]
        /\ hmsg[h].channel \notin banned_channels
        /\ toggled[hmsg[h].channel]

\* C19: once the connection mutex is poisoned, no toggle is past the
\* connection's lock, no step changes the set or the table, a toggle that
\* reaches the lock panics there without a reply, and a lookup returns the
\* membership in the set as it stands.
C19_PoisonedConnectionStopsToggles ==
    /\ [](connPoisoned =>
            /\ aborted
            /\ \A t \in Commands :
                  cpc[t] \notin {"remove", "sql_delete", "sql_insert", "set_insert", "returned"})
    /\ [][connPoisoned =>
              /\ UNCHANGED <<banned_channels, table>>
              /\ \A t \in Commands :
                    (cpc[t] = "conn_lock" /\ cpc'[t] # cpc[t]) =>
                        cpc'[t] = "panicked" /\ creply'[t] = "none" /\ cwrites'[t] = 0
              /\ \A h \in Handlers :
                    (hpc[h] = "lookup" /\ hpc'[h] # hpc[h]) =>
                        hbanned'[h] = (hmsg[h].channel \in banned_channels)]_vars

\* C19 witness: after a failed write, a later toggle of the other channel
\* has panicked too.
C19_Witness ==
    /\ connPoisoned
    /\ cpc["t1"] = "panicked"
    /\ cpc["t2"] = "panicked"
    /\ cchan["t1"] # cchan["t2"]

====
